---- MODULE Spec2Model ----
(***************************************************************************)
(* Hydrophone dashboard: the divert interval reconstruction of             *)
(* GmailDivertParser (src/src/hydrophonedashboard/divert/gmail_parser.py)   *)
(* and the coverage analysis, status classification and device fan-out of  *)
(* src/Hydrophone.py.                                                       *)
(*                                                                         *)
(* Time is counted in ticks of 12 hours.  A parsed email carries a         *)
(* timestamp that is either None (the subject held no parseable timestamp) *)
(* or one of the instants of Timestamps; the run takes place at one of the *)
(* instants of Nows.  A file listing is kept as the number of files per    *)
(* (days ago, extension).                                                  *)
(***************************************************************************)
EXTENDS Integers, Sequences, FiniteSets, TLC

\* ------------------------------------------------------------------------
\* Bounds of the model
\* ------------------------------------------------------------------------
\* emails one search of the mailbox returns (parser specification)
MaxEmails == 4
\* distinct email instants: the ticks 1..MaxTime
MaxTime == 4
\* emails one search returns when a device check follows
MaxCheckEmails == 2
\* files a listing returns for a day on which the device recorded
FilesPerDay == 12
\* devices of a batch run
MaxDevices == 2
\* emails one search returns when a batch run follows
MaxBatchEmails == 1
MaxDailyFiles == 6
CountedDays == 4
MaxPoolDevices == 9
MaxCycleEmails == 2
MaxStatisticsEmails == 3

\* ------------------------------------------------------------------------
\* Values
\* ------------------------------------------------------------------------
\* Python's None, for a timestamp, a period end or a system
None == 0

Timestamps == 1..MaxTime

\* ticks in a day (86400 seconds)
TicksPerDay == 2

\* timedelta(days=n) in ticks
timedelta(days) == days * TicksPerDay

\* the instants at which a run may take place: one tick after the latest
\* email instant, or 3 days after that
Nows == {MaxTime + 1, MaxTime + 1 + timedelta(3)}

Statuses == {"Divert", "Bypass"}

\* the part of LOCATION_MAPPING the model uses: email location name ->
\* hydrophone location codes
LOCATION_MAPPING == [n \in {"SoG_Delta"} |-> <<"CBCH.H1", "CBCH.H2">>]

EmailLocations == DOMAIN LOCATION_MAPPING

\* every hydrophone location code of the model; BIIP is in no modelled email
LocationCodes == {"CBCH.H1", "CBCH.H2", "BIIP"}

\* parse_divert_email's result: the parsed_info of one email.  locations is
\* the dict email location -> status in insertion order.
ParsedEmails ==
    { [timestamp |-> t, system |-> "SoG DDS",
       locations |-> << [name |-> n, status |-> s] >>] :
          t \in Timestamps \cup {None}, n \in EmailLocations, s \in Statuses }
    \cup { [timestamp |-> None, system |-> "SoG DDS", locations |-> << >>] }

\* ------------------------------------------------------------------------
\* State
\* ------------------------------------------------------------------------
VARIABLES
    pc,                     \* position of the run
    now,                    \* datetime.now() of the run
    faults,                 \* the calls of get_divert_statistics that raise in this run
    messages,               \* emails of the current search, in retrieval order
    current_divert_status,  \* GmailDivertParser.current_divert_status
    divert_history,         \* GmailDivertParser.divert_history
    divert_periods,         \* GmailDivertParser.divert_periods
    divert_parser,          \* the global divert_parser: None or the parser
    MyDevices,              \* the rows of the dataframe: deviceCode, locationCode
    listings,               \* row -> what the listing calls of its check returned
    data_status,            \* row -> the data_status column
    max_workers,            \* max_workers of the ThreadPoolExecutor
    running,                \* rows whose check_single_device is executing
    results                 \* row -> the status its check_single_device returned

parserVars == <<messages, current_divert_status, divert_history, divert_periods>>

deviceVars == <<MyDevices, listings, data_status>>

poolVars == <<max_workers, running, results>>

vars == <<pc, now, faults, parserVars, divert_parser, deviceVars, poolVars>>

\* current_date = datetime.now()
current_date == now

\* ------------------------------------------------------------------------
\* Dicts: a Python dict is a function on the set of its keys
\* ------------------------------------------------------------------------
EmptyDict == << >>

DictSet(d, k, v) == (k :> v) @@ d

\* ------------------------------------------------------------------------
\* GmailDivertParser
\* ------------------------------------------------------------------------
\* key=lambda x: x['timestamp'] or datetime.min
SortKey(email) == email.timestamp

\* list.sort(key=..., reverse=True) is stable: an element goes after every
\* element whose key is greater or equal
RECURSIVE InsertNewestFirst(_, _)
InsertNewestFirst(sorted, e) ==
    IF sorted = << >> THEN <<e>>
    ELSE IF SortKey(Head(sorted)) >= SortKey(e)
         THEN <<Head(sorted)>> \o InsertNewestFirst(Tail(sorted), e)
         ELSE <<e>> \o sorted

RECURSIVE SortNewestFirst(_)
SortNewestFirst(emails) ==
    IF emails = << >> THEN << >>
    ELSE InsertNewestFirst(SortNewestFirst(SubSeq(emails, 1, Len(emails) - 1)),
                           emails[Len(emails)])

\* list.sort(key=lambda x: x['timestamp']) is stable: an element goes after
\* every element whose timestamp is less or equal
RECURSIVE InsertOldestFirst(_, _)
InsertOldestFirst(sorted, e) ==
    IF sorted = << >> THEN <<e>>
    ELSE IF Head(sorted).timestamp <= e.timestamp
         THEN <<Head(sorted)>> \o InsertOldestFirst(Tail(sorted), e)
         ELSE <<e>> \o sorted

\* a sort that leaves the events in the order of divert_history
SortOldestFirstUnsorted(events) == events

RECURSIVE SortOldestFirst(_)
SortOldestFirst(events) ==
    IF events = << >> THEN << >>
    ELSE InsertOldestFirst(SortOldestFirst(SubSeq(events, 1, Len(events) - 1)),
                           events[Len(events)])

\* map_locations_to_hydrophones: the dict hydrophone code -> status; a later
\* email location overwrites an earlier one that maps to the same code
RECURSIVE MapCodes(_, _, _)
MapCodes(hydrophone_status, codes, status) ==
    IF codes = << >> THEN hydrophone_status
    ELSE MapCodes(DictSet(hydrophone_status, Head(codes), status), Tail(codes), status)

RECURSIVE MapLocationsFrom(_, _)
MapLocationsFrom(hydrophone_status, email_locations) ==
    IF email_locations = << >> THEN hydrophone_status
    ELSE LET l == Head(email_locations)
             codes == IF l.name \in DOMAIN LOCATION_MAPPING
                      THEN LOCATION_MAPPING[l.name] ELSE << >>
         IN MapLocationsFrom(MapCodes(hydrophone_status, codes, l.status),
                             Tail(email_locations))

map_locations_to_hydrophones(email_locations) ==
    MapLocationsFrom(EmptyDict, email_locations)

\* update_divert_status, lines 302-314: keep the emails with locations and
\* sort them newest first
ParsedAndSorted(msgs) ==
    SortNewestFirst(SelectSeq(msgs, LAMBDA m : m.locations # << >>))

\* update_divert_status, lines 317-338: st is the pair of current_divert_status
\* and location_timestamps while the loop runs over the sorted emails
RECURSIVE CurrentStatusLoop(_, _)
CurrentStatusLoop(st, parsed_emails) ==
    IF parsed_emails = << >> THEN st
    ELSE LET email_info == Head(parsed_emails)
             timestamp == email_info.timestamp
             hydrophone_status == map_locations_to_hydrophones(email_info.locations)
             Newer(s, code) ==
                 \/ code \notin DOMAIN s.location_timestamps
                 \/ /\ timestamp # None
                    /\ timestamp > s.location_timestamps[code]
             step ==
                 [code \in DOMAIN hydrophone_status |->
                     [status |-> hydrophone_status[code],
                      timestamp |-> timestamp,
                      system |-> email_info.system]]
             next ==
                 [current |->
                     [code \in (DOMAIN st.current) \cup
                               {c \in DOMAIN step : Newer(st, c)} |->
                         IF code \in DOMAIN step /\ Newer(st, code)
                         THEN step[code] ELSE st.current[code]],
                  location_timestamps |->
                     [code \in (DOMAIN st.location_timestamps) \cup
                               {c \in DOMAIN step : Newer(st, c)} |->
                         IF code \in DOMAIN step /\ Newer(st, code)
                         THEN timestamp ELSE st.location_timestamps[code]]]
         IN CurrentStatusLoop(next, Tail(parsed_emails))

CurrentDivertStatus(parsed_emails) ==
    CurrentStatusLoop([current |-> EmptyDict, location_timestamps |-> EmptyDict],
                      parsed_emails).current

\* _calculate_divert_periods, lines 400-417: the events of each location in
\* the order of divert_history, emails without a timestamp skipped
RECURSIVE LocationEventsFrom(_, _)
LocationEventsFrom(location_events, history) ==
    IF history = << >> THEN location_events
    ELSE LET email_info == Head(history)
             hydrophone_status == map_locations_to_hydrophones(email_info.locations)
             event(location) == [timestamp |-> email_info.timestamp,
                                 status |-> hydrophone_status[location],
                                 system |-> email_info.system]
             next ==
                 IF email_info.timestamp = None THEN location_events
                 ELSE [location \in (DOMAIN location_events) \cup
                                    (DOMAIN hydrophone_status) |->
                         IF location \in DOMAIN hydrophone_status
                         THEN (IF location \in DOMAIN location_events
                               THEN Append(location_events[location], event(location))
                               ELSE <<event(location)>>)
                         ELSE location_events[location]]
         IN LocationEventsFrom(next, Tail(history))

\* lines 420-421: each location's events sorted by timestamp
LocationEvents(history) ==
    LET location_events == LocationEventsFrom(EmptyDict, history)
    IN [location \in DOMAIN location_events |->
            SortOldestFirst(location_events[location])]

NewPeriod(event) ==
    [start |-> event.timestamp, end |-> None,
     status |-> event.status, system |-> event.system]

\* a walk that opens a period at every event, also when the status is
\* unchanged
RECURSIVE PeriodWalkNoAbsorb(_, _, _)
PeriodWalkNoAbsorb(periods, current_period, events) ==
    IF events = << >>
    THEN (IF current_period = << >> THEN periods
          ELSE Append(periods, current_period[1]))
    ELSE LET event == Head(events)
         IN IF current_period = << >>
            THEN PeriodWalkNoAbsorb(periods, <<NewPeriod(event)>>, Tail(events))
            ELSE PeriodWalkNoAbsorb(
                   Append(periods, [current_period[1] EXCEPT !.end = event.timestamp]),
                   <<NewPeriod(event)>>, Tail(events))

\* lines 427-455: the walk over one location's sorted events.  acc is the
\* pair of the closed periods and current_period (<< >> while it is None).
RECURSIVE PeriodWalk(_, _, _)
PeriodWalk(periods, current_period, events) ==
    IF events = << >>
    THEN (IF current_period = << >> THEN periods
          ELSE Append(periods, current_period[1]))
    ELSE LET event == Head(events)
         IN IF current_period = << >>
            THEN PeriodWalk(periods, <<NewPeriod(event)>>, Tail(events))
            ELSE IF current_period[1].status # event.status
                 THEN PeriodWalk(
                        Append(periods, [current_period[1] EXCEPT !.end = event.timestamp]),
                        <<NewPeriod(event)>>, Tail(events))
                 ELSE PeriodWalk(periods, current_period, Tail(events))

PeriodsOfEvents(events) == PeriodWalk(<< >>, << >>, events)

\* _calculate_divert_periods as a function of divert_history
CalculateDivertPeriods(history) ==
    LET location_events == LocationEvents(history)
    IN [location \in DOMAIN location_events |->
            PeriodsOfEvents(location_events[location])]

\* get_location_divert_info: current_divert_status.get(location_code); the
\* result is << >> for None and <<info>> for an entry
get_location_divert_info(location_code) ==
    IF location_code \in DOMAIN current_divert_status
    THEN <<current_divert_status[location_code]>> ELSE << >>

\* get_divert_periods with both start_date and end_date given: the periods
\* of the location that overlap [start_date, end_date]
get_divert_periods(location_code, start_date, end_date) ==
    LET periods == IF location_code \in DOMAIN divert_periods
                   THEN divert_periods[location_code] ELSE << >>
        Overlaps(period) ==
            LET period_start == period.start
                period_end == IF period.end # None THEN period.end ELSE current_date
            IN ~(period_end < start_date) /\ ~(period_start > end_date)
    IN SelectSeq(periods, Overlaps)

Max(a, b) == IF a >= b THEN a ELSE b

Min(a, b) == IF a <= b THEN a ELSE b

\* the whole duration of every period of the status, without clipping it to
\* the analysis window
RECURSIVE WholePeriodTime(_, _, _, _)
WholePeriodTime(periods, status, analysis_start, analysis_end) ==
    IF periods = << >> THEN [time |-> 0, count |-> 0]
    ELSE LET period == Head(periods)
             period_end == IF period.end # None THEN period.end ELSE current_date
             rest == WholePeriodTime(Tail(periods), status, analysis_start, analysis_end)
         IN IF period_end <= period.start \/ period.status # status
            THEN rest
            ELSE [time |-> rest.time + (period_end - period.start),
                  count |-> rest.count + 1]

\* lines 512-526: the time of one status inside the analysis window, and the
\* number of periods that contribute to it
RECURSIVE ClippedTime(_, _, _, _)
ClippedTime(periods, status, analysis_start, analysis_end) ==
    IF periods = << >> THEN [time |-> 0, count |-> 0]
    ELSE LET period == Head(periods)
             period_start == Max(period.start, analysis_start)
             period_end == Min(IF period.end # None THEN period.end ELSE current_date,
                               analysis_end)
             rest == ClippedTime(Tail(periods), status, analysis_start, analysis_end)
         IN IF period_end <= period_start \/ period.status # status
            THEN rest
            ELSE [time |-> rest.time + (period_end - period_start),
                  count |-> rest.count + 1]

\* get_divert_statistics with both dates given.  Times are in ticks; a
\* percentage p is kept as the fraction <<numerator, denominator>>.
get_divert_statistics(location_code, start_date, end_date) ==
    LET periods == get_divert_periods(location_code, start_date, end_date)
        analysis_start == start_date
        analysis_end == end_date
        divert == ClippedTime(periods, "Divert", analysis_start, analysis_end)
        bypass == ClippedTime(periods, "Bypass", analysis_start, analysis_end)
        total_analysis_time == analysis_end - analysis_start
    IN [location_code |-> location_code,
        total_analysis_time |-> total_analysis_time,
        total_divert_time |-> divert.time,
        total_bypass_time |-> bypass.time,
        divert_percentage |-> IF total_analysis_time > 0
                              THEN <<divert.time * 100, total_analysis_time>>
                              ELSE <<0, 1>>,
        bypass_percentage |-> IF total_analysis_time > 0
                              THEN <<bypass.time * 100, total_analysis_time>>
                              ELSE <<0, 1>>,
        divert_periods_count |-> divert.count,
        bypass_periods_count |-> bypass.count,
        total_periods |-> Len(periods)]

\* ------------------------------------------------------------------------
\* Hydrophone.py: configuration
\* ------------------------------------------------------------------------
CRITICAL_DATA_TYPES == <<"fft", "flac", "mat">>

\* line 69: int(os.getenv('MAX_DAYS_WITHOUT_DATA', 1)); no other line of the
\* program reads it
MAX_DAYS_WITHOUT_DATA == 1

\* the values the setting can be given
MaxDaysWithoutDataSettings == 0..2

CHECK_LAST_N_DAYS == 7

DEVICE_CAPABILITIES ==
    [device_code \in {"ICLISTENHF1354", "ICLISTENHF1561"} |->
        IF device_code = "ICLISTENHF1354" THEN <<"fft">> ELSE <<"fft", "flac">>]

get_expected_data_types(device_code) ==
    IF device_code \in DOMAIN DEVICE_CAPABILITIES
    THEN DEVICE_CAPABILITIES[device_code]
    ELSE CRITICAL_DATA_TYPES

\* fractions <<numerator, denominator>> with a positive denominator
FracGt(f, n) == f[1] > n * f[2]

FracLess(f, g) == f[1] * g[2] < g[1] * f[2]

FracAdd(f, g) == <<f[1] * g[2] + g[1] * f[2], f[2] * g[2]>>

RECURSIVE SumOver(_, _)
SumOver(f, S) ==
    IF S = {} THEN 0
    ELSE LET x == CHOOSE y \in S : TRUE IN f[x] + SumOver(f, S \ {x})

Range(seq) == {seq[i] : i \in 1..Len(seq)}

\* the days check_data_availability analyses, as days before today, and the
\* days the listing request covers (date_from is today - CHECK_LAST_N_DAYS)
AnalysedDays == 0..(CHECK_LAST_N_DAYS - 1)

FetchedDays == 0..CHECK_LAST_N_DAYS

\* ------------------------------------------------------------------------
\* Hydrophone.py: check_data_availability
\* ------------------------------------------------------------------------
\* divert_parser = None
NoParser == "None"

\* a key the status dict does not hold
Absent == "absent"

\* last_data_date = None
NoDate == -1

\* divert_since = 'Unknown'
Unknown == -1

\* lines 110-120: the status dict at the start of check_data_availability;
\* divert_status and divert_explanation are << >> for None
InitialStatus ==
    [overall_status |-> "good",
     days_since_last_data |-> 0,
     missing_data_types |-> << >>,
     total_missing_days |-> 0,
     status_message |-> "",
     last_data_date |-> NoDate,
     divert_status |-> << >>,
     is_diverted |-> FALSE,
     divert_since |-> None,
     days_missing_per_type |-> Absent,
     coverage_per_type |-> Absent,
     expected_files_per_day |-> Absent,
     divert_explanation |-> << >>]

\* lines 125-131: the divert fields of the status
WithDivertInfo(status, location_code, parser) ==
    LET divert_info == IF parser # NoParser THEN get_location_divert_info(location_code)
                       ELSE << >>
    IN IF divert_info = << >> THEN status
       ELSE [status EXCEPT
               !.divert_status = divert_info,
               !.is_diverted = (divert_info[1].status = "Divert"),
               !.divert_since = IF divert_info[1].timestamp # None
                                THEN divert_info[1].timestamp ELSE Unknown]

\* lines 141-211: files_by_date_and_type, as the number of files per day
\* (days before today) and expected type.  A listing call that raised adds
\* no file (lines 158-160).
FilesByDateAndType(expected_data_types, listing) ==
    [d \in FetchedDays |->
        [dtype \in Range(expected_data_types) |->
            IF listing[dtype].kind = "files" THEN listing[dtype].counts[d] ELSE 0]]

\* a default expectation of 0 files for a type without files
ExpectedFilesPerDayNoDefault(files, dtype) ==
    LET days == {d \in FetchedDays : files[d][dtype] > 0}
        middle == Cardinality(days) \div 2
        median_count ==
            CHOOSE v \in {files[d][dtype] : d \in days} :
                /\ Cardinality({d \in days : files[d][dtype] < v}) <= middle
                /\ middle < Cardinality({d \in days : files[d][dtype] <= v})
    IN IF days # {} THEN Max(median_count, 4) ELSE 0

\* lines 215-231: expected_files_per_day of one type
ExpectedFilesPerDay(files, dtype) ==
    LET days == {d \in FetchedDays : files[d][dtype] > 0}
        \* sorted_counts[len(sorted_counts)//2]
        middle == Cardinality(days) \div 2
        median_count ==
            CHOOSE v \in {files[d][dtype] : d \in days} :
                /\ Cardinality({d \in days : files[d][dtype] < v}) <= middle
                /\ middle < Cardinality({d \in days : files[d][dtype] <= v})
    IN IF days # {} THEN Max(median_count, 4) ELSE 12

\* lines 215-231: the loop that fills the dict expected_files_per_day
RECURSIVE ExpectedFilesPerType(_, _)
ExpectedFilesPerType(files, dtypes) ==
    IF dtypes = << >> THEN EmptyDict
    ELSE (Head(dtypes) :> ExpectedFilesPerDay(files, Head(dtypes)))
         @@ ExpectedFilesPerType(files, Tail(dtypes))

\* a coverage_threshold of 0: every day is adequate
AdequateCoverageNoThreshold(actual_files, expected_files) ==
    actual_files * 100 >= 0 * expected_files

\* a strict threshold: a type at exactly 30% is not adequate
AdequateCoverageStrict(actual_files, expected_files) ==
    actual_files * 100 > 30 * expected_files

\* lines 255-258: coverage_pct >= coverage_threshold * 100, for
\* coverage_pct = actual_files / expected_files * 100
AdequateCoverage(actual_files, expected_files) ==
    actual_files * 100 >= 30 * expected_files

\* lines 242-276 and 312-335: the counts over the days 0..(n_days - 1)
CoverageCounts(files, expected_data_types, expected_files_per_day, n_days) ==
    LET types == Range(expected_data_types)
        days == 0..(n_days - 1)
        Adequate(d, dtype) ==
            AdequateCoverage(files[d][dtype], expected_files_per_day[dtype])
    IN [missing_per_type |->
            [dtype \in types |-> Cardinality({d \in days : ~Adequate(d, dtype)})],
        days_with_poor_coverage |->
            Cardinality({d \in days : \A dtype \in types : ~Adequate(d, dtype)})]

\* lines 284-291: the average coverage of a type over the window, as the
\* fraction <<100 * files, expected files>>
OverallCoverage(files, expected_files_per_day, dtype) ==
    IF CHECK_LAST_N_DAYS > 0
    THEN <<100 * SumOver([d \in AnalysedDays |-> files[d][dtype]], AnalysedDays),
           expected_files_per_day[dtype] * CHECK_LAST_N_DAYS>>
    ELSE <<0, 1>>

\* lines 366-372: avg_coverage_deficit as a fraction
RECURSIVE TotalCoverageDeficit(_, _)
TotalCoverageDeficit(overall_coverage_per_type, dtypes) ==
    IF dtypes = << >> THEN <<0, 1>>
    ELSE LET avg_coverage == overall_coverage_per_type[Head(dtypes)]
             \* max(0, 100 - avg_coverage)
             coverage_deficit ==
                 <<Max(0, 100 * avg_coverage[2] - avg_coverage[1]), avg_coverage[2]>>
         IN FracAdd(coverage_deficit,
                    TotalCoverageDeficit(overall_coverage_per_type, Tail(dtypes)))

AvgCoverageDeficit(overall_coverage_per_type, expected_data_types) ==
    LET total == TotalCoverageDeficit(overall_coverage_per_type, expected_data_types)
    IN IF expected_data_types # << >>
       THEN <<total[1], total[2] * Len(expected_data_types)>>
       ELSE <<0, 1>>

FracMin(f, g) == IF FracLess(g, f) THEN g ELSE f

\* a type counted as frequently missing only when it misses more days than
\* the window has
FrequentlyMissingBeyondWindow(missing_days) == missing_days > CHECK_LAST_N_DAYS

\* line 281: missing_days > CHECK_LAST_N_DAYS // 2
FrequentlyMissing(missing_days) == missing_days > CHECK_LAST_N_DAYS \div 2

\* a type counted as recently missing only when it misses all 3 days
RecentlyMissingAllDays(missing_days) == missing_days >= 3

\* line 338: missing_days >= 2
RecentlyMissing(missing_days) == missing_days >= 2

\* the days since the oldest day with data instead of the most recent one
DaysSinceOldestData(days_with_data) ==
    IF days_with_data # {}
    THEN CHOOSE d \in days_with_data : \A e \in days_with_data : d >= e
    ELSE CHECK_LAST_N_DAYS

\* days_since_last_data left at its initial 0 when no file was found
DaysSinceLastDataUnset(days_with_data) ==
    IF days_with_data # {}
    THEN CHOOSE d \in days_with_data : \A e \in days_with_data : d <= e
    ELSE 0

\* lines 300-304: days_since_last_data, from the days (before today) that
\* have a file of an expected type
DaysSinceLastData(days_with_data) ==
    IF days_with_data # {}
    THEN CHOOSE d \in days_with_data : \A e \in days_with_data : d <= e
    ELSE CHECK_LAST_N_DAYS

\* a divert_explanation that is computed although the statistics call raised
DivertExplanationDespiteFault(location_code, parser, overall_coverage_per_type, expected_data_types) ==
    IF parser = NoParser THEN << >>
    ELSE LET divert_stats ==
                 get_divert_statistics(location_code,
                                       current_date - timedelta(CHECK_LAST_N_DAYS),
                                       current_date)
             avg_coverage_deficit ==
                 AvgCoverageDeficit(overall_coverage_per_type, expected_data_types)
         IN IF divert_stats.total_periods > 0 /\ FracGt(divert_stats.divert_percentage, 5)
            THEN << [divert_percentage |-> divert_stats.divert_percentage,
                     explained_missing |->
                         FracMin(divert_stats.divert_percentage, avg_coverage_deficit),
                     avg_coverage_deficit |-> avg_coverage_deficit,
                     periods_count |-> divert_stats.divert_periods_count,
                     total_divert_time |-> divert_stats.total_divert_time] >>
            ELSE << >>

\* lines 346-390: divert_explanation, << >> for None
DivertExplanation(location_code, parser, overall_coverage_per_type, expected_data_types) ==
    IF parser = NoParser THEN << >>
    ELSE IF "window_statistics" \in faults
    THEN \* lines 388-389: the call of line 353 raised
         << >>
    ELSE LET analysis_start == current_date - timedelta(CHECK_LAST_N_DAYS)
             analysis_end == current_date
             divert_stats ==
                 get_divert_statistics(location_code, analysis_start, analysis_end)
             divert_percentage == divert_stats.divert_percentage
             avg_coverage_deficit ==
                 AvgCoverageDeficit(overall_coverage_per_type, expected_data_types)
         IN IF divert_stats.total_periods > 0 /\ FracGt(divert_percentage, 5)
            THEN << [divert_percentage |-> divert_percentage,
                     explained_missing |-> FracMin(divert_percentage, avg_coverage_deficit),
                     avg_coverage_deficit |-> avg_coverage_deficit,
                     periods_count |-> divert_stats.divert_periods_count,
                     total_divert_time |-> divert_stats.total_divert_time] >>
            ELSE << >>

\* a count of the days diverted that rounds a started day up
DaysDivertedRoundedUp(total_divert_time) ==
    (total_divert_time + TicksPerDay - 1) \div TicksPerDay

\* line 404: int(total_divert_time.total_seconds() / 86400)
DaysDiverted(total_divert_time) == total_divert_time \div TicksPerDay

\* a classification in which poor days anywhere in the window keep the
\* device flagged
ClassificationByWholeWindow(is_diverted, divert_explanation, location_code, counts) ==
    IF is_diverted
    THEN <<"diverted", "DIVERTED - Missing data expected">>
    ELSE IF counts.days_with_poor_coverage >= 3
    THEN <<"critical", "Poor data coverage for recent days">>
    ELSE IF counts.days_with_poor_coverage >= 2 \/ Len(counts.frequently_missing_types) >= 2
    THEN <<"warning", "Poor data coverage for recent days">>
    ELSE IF Len(counts.frequently_missing_types) >= 1
    THEN <<"minor", "Recently missing data type">>
    ELSE <<"good", "All expected data types available">>

\* a classification without the branch of the active divert
ClassificationIgnoringDivert(is_diverted, divert_explanation, location_code, counts) ==
    IF counts.recent_days_with_poor_coverage >= 3
    THEN <<"critical", "Poor data coverage for recent days">>
    ELSE IF counts.recent_days_with_poor_coverage >= 2
    THEN <<"warning", "Poor data coverage for recent days">>
    ELSE <<"good", "All expected data types available">>

\* lines 392-450: overall_status and status_message, from the counts of the
\* window and of the last 3 days
Classification(is_diverted, divert_explanation, location_code, counts) ==
    LET days_with_poor_coverage == counts.days_with_poor_coverage
        frequently_missing_types == counts.frequently_missing_types
        recent_days_with_poor_coverage == counts.recent_days_with_poor_coverage
        frequently_missing_recent == counts.frequently_missing_recent
        recent_data_good ==
            recent_days_with_poor_coverage = 0 /\ Len(frequently_missing_recent) = 0
        historical_issues ==
            days_with_poor_coverage >= 3 \/ Len(frequently_missing_types) >= 1
    IN IF is_diverted
       THEN (IF recent_days_with_poor_coverage >= 1 \/ Len(frequently_missing_recent) >= 1
             THEN <<"diverted", "DIVERTED - Missing data expected">>
             ELSE <<"diverted", "DIVERTED - Data collection suspended">>)
       ELSE IF divert_explanation # << >> /\ FracGt(divert_explanation[1].explained_missing, 20)
       THEN LET days_diverted == DaysDiverted(divert_explanation[1].total_divert_time)
                unexplained_missing == Max(0, days_with_poor_coverage - days_diverted)
                recent_start == current_date - timedelta(3)
                recent_divert_stats ==
                    get_divert_statistics(location_code, recent_start, current_date)
                \* lines 419-420: when the call of line 413 raises the count
                \* of line 408 stays
                unexplained_recent ==
                    IF "recent_statistics" \notin faults
                       /\ FracGt(recent_divert_stats.divert_percentage, 15)
                    THEN Max(0, recent_days_with_poor_coverage - 1)
                    ELSE recent_days_with_poor_coverage
            IN IF unexplained_recent >= 2 /\ unexplained_missing >= 3
               THEN <<"warning", "Coverage issues beyond diversions">>
               ELSE IF unexplained_recent >= 1 \/ unexplained_missing >= 2
               THEN <<"minor", "Minor coverage issues beyond diversions">>
               ELSE <<"good", "Coverage gaps explained by diversions">>
       ELSE IF recent_days_with_poor_coverage >= 3
       THEN <<"critical", "Poor data coverage for recent days">>
       ELSE IF recent_days_with_poor_coverage >= 2
       THEN <<"warning", "Poor data coverage for recent days">>
       ELSE IF Len(frequently_missing_recent) >= 2
       THEN <<"warning", "Recently missing data types">>
       ELSE IF Len(frequently_missing_recent) >= 1
       THEN <<"minor", "Recently missing data type">>
       ELSE IF recent_data_good /\ historical_issues
       THEN <<"good", "Recently resolved - all data types now available">>
       ELSE <<"good", "All expected data types available">>

\* check_data_availability.  parser is divert_parser (NoParser without divert
\* monitoring); listing gives, for each expected extension, what the listing
\* call does: kind "files" with the number of files per day before today,
\* kind "api_error" when the call raises, kind "malformed" when it returns a
\* file whose dateFrom does not parse (line 184 raises).
check_data_availability(device_code, location_code, parser, listing) ==
    LET status == WithDivertInfo(InitialStatus, location_code, parser)
        expected_data_types == get_expected_data_types(device_code)
        types == Range(expected_data_types)
        files == FilesByDateAndType(expected_data_types, listing)
        expected_files_per_day == ExpectedFilesPerType(files, expected_data_types)
        window == CoverageCounts(files, expected_data_types, expected_files_per_day,
                                 CHECK_LAST_N_DAYS)
        recent == CoverageCounts(files, expected_data_types, expected_files_per_day, 3)
        frequently_missing_types ==
            SelectSeq(expected_data_types,
                      LAMBDA dtype : FrequentlyMissing(window.missing_per_type[dtype]))
        frequently_missing_recent ==
            SelectSeq(expected_data_types,
                      LAMBDA dtype : RecentlyMissing(recent.missing_per_type[dtype]))
        overall_coverage_per_type ==
            [dtype \in types |-> OverallCoverage(files, expected_files_per_day, dtype)]
        days_with_data == {d \in FetchedDays : \E dtype \in types : files[d][dtype] > 0}
        last_data_found == CHOOSE d \in days_with_data : \A e \in days_with_data : d <= e
        divert_explanation ==
            DivertExplanation(location_code, parser, overall_coverage_per_type,
                              expected_data_types)
        verdict ==
            Classification(status.is_diverted, divert_explanation, location_code,
                           [days_with_poor_coverage |-> window.days_with_poor_coverage,
                            frequently_missing_types |-> frequently_missing_types,
                            recent_days_with_poor_coverage |-> recent.days_with_poor_coverage,
                            frequently_missing_recent |-> frequently_missing_recent])
    IN IF \E dtype \in types : listing[dtype].kind = "malformed"
       THEN \* lines 452-455
            [status EXCEPT !.overall_status = "error",
                           !.status_message = "Error checking data"]
       ELSE [status EXCEPT
               !.missing_data_types = frequently_missing_types,
               !.total_missing_days = window.days_with_poor_coverage,
               !.days_missing_per_type = window.missing_per_type,
               !.coverage_per_type = overall_coverage_per_type,
               !.expected_files_per_day = expected_files_per_day,
               !.days_since_last_data = DaysSinceLastData(days_with_data),
               !.last_data_date = IF days_with_data # {} THEN last_data_found
                                  ELSE NoDate,
               !.divert_explanation = divert_explanation,
               !.overall_status = verdict[1],
               !.status_message = verdict[2]]

\* ------------------------------------------------------------------------
\* Actions of the mailbox and the parser
\* ------------------------------------------------------------------------
\* the parser as GmailDivertParser.__init__ leaves it, before the search
InitParserState ==
    /\ pc = "retrieving"
    /\ messages = << >>
    /\ current_divert_status = EmptyDict
    /\ divert_history = << >>
    /\ divert_periods = EmptyDict
    /\ divert_parser = "GmailDivertParser"

\* no executor yet
InitPoolState ==
    /\ max_workers = None
    /\ running = {}
    /\ results = EmptyDict
    /\ listings = EmptyDict
    /\ data_status = EmptyDict

Init ==
    /\ InitParserState
    /\ InitPoolState
    /\ now = MaxTime + 1
    /\ faults = {}
    /\ MyDevices = << >>

\* search_divert_emails / get_email_content / parse_divert_email: the search
\* returns one more email, parsed
RetrieveEmail(email, max) ==
    /\ pc = "retrieving"
    /\ Len(messages) < max
    /\ messages' = Append(messages, email)
    /\ UNCHANGED <<now, faults, pc, current_divert_status, divert_history, divert_periods,
                   divert_parser, deviceVars, poolVars>>

\* an update that keeps the statuses and the periods of the locations the
\* new emails do not mention
UpdateDivertStatusIncremental ==
    /\ pc = "retrieving"
    /\ LET parsed_emails == ParsedAndSorted(messages)
       IN /\ current_divert_status' = CurrentDivertStatus(parsed_emails) @@ current_divert_status
          /\ divert_history' = parsed_emails
          /\ divert_periods' = CalculateDivertPeriods(parsed_emails) @@ divert_periods
    /\ messages' = << >>
    /\ pc' = "updated"
    /\ UNCHANGED <<now, faults, divert_parser, deviceVars, poolVars>>

\* update_divert_status on the emails retrieved; the list of the search is
\* a local of the call and is gone when it returns
UpdateDivertStatus ==
    /\ pc = "retrieving"
    /\ LET parsed_emails == ParsedAndSorted(messages)
       IN /\ current_divert_status' = CurrentDivertStatus(parsed_emails)
          /\ divert_history' = parsed_emails
          /\ divert_periods' = CalculateDivertPeriods(parsed_emails)
    /\ messages' = << >>
    /\ pc' = "updated"
    /\ UNCHANGED <<now, faults, divert_parser, deviceVars, poolVars>>

RetrieveForParser == \E email \in ParsedEmails : RetrieveEmail(email, MaxEmails)

NextParser == RetrieveForParser \/ UpdateDivertStatus

SpecParser == Init /\ [][NextParser]_vars

\* ------------------------------------------------------------------------
\* The parser queried for statistics after a search of a few emails
\* ------------------------------------------------------------------------
RetrieveForStatistics ==
    \E email \in ParsedEmails : RetrieveEmail(email, MaxStatisticsEmails)

NextStatistics == RetrieveForStatistics \/ UpdateDivertStatus

SpecStatistics == Init /\ [][NextStatistics]_vars

\* ------------------------------------------------------------------------
\* Several update cycles on one parser
\* ------------------------------------------------------------------------
\* update_divert_status is called again on the same parser: a new search
\* starts while the attributes hold what the previous call left
NewCycle ==
    /\ pc = "updated"
    /\ pc' = "retrieving"
    /\ messages' = << >>
    /\ UNCHANGED <<now, faults, current_divert_status, divert_history, divert_periods,
                   divert_parser, deviceVars, poolVars>>

\* the emails a search of these cycles finds: two instants or no timestamp
CycleEmails == {email \in ParsedEmails : email.timestamp \in {None, 1, 2}}

RetrieveForCycle == \E email \in CycleEmails : RetrieveEmail(email, MaxCycleEmails)

NextCycles == RetrieveForCycle \/ UpdateDivertStatus \/ NewCycle

SpecCycles == Init /\ [][NextCycles]_vars

\* ------------------------------------------------------------------------
\* Hydrophone.py: the device fan-out, lines 598-633
\* ------------------------------------------------------------------------
\* lines 598-606: divert monitoring is disabled or fails to initialise before
\* any email is read; the run goes on without a parser
ContinueWithoutDivertMonitoring ==
    /\ pc = "retrieving"
    /\ messages = << >>
    /\ divert_parser' = NoParser
    /\ pc' = "updated"
    /\ UNCHANGED <<now, faults, parserVars, deviceVars, poolVars>>

\* the devices a run may monitor: device code and location code
DeviceCatalogue ==
    { [deviceCode |-> "ICLISTENHF1561", locationCode |-> "CBCH.H1"],
      [deviceCode |-> "ICLISTENHF1354", locationCode |-> "BIIP"] }

\* what one listing call can return: the device recorded FilesPerDay files
\* on any of the last 3 days and on all or none of the earlier days
DailyCounts ==
    { [d \in FetchedDays |->
          IF (d < 3 /\ d \in recent) \/ (d >= 3 /\ earlier) THEN FilesPerDay ELSE 0] :
      recent \in SUBSET (0..2), earlier \in BOOLEAN }

NoFiles == [d \in FetchedDays |-> 0]

Responses ==
    { [kind |-> "files", counts |-> c] : c \in DailyCounts }
    \cup { [kind |-> k, counts |-> NoFiles] : k \in {"api_error", "malformed"} }

Listings(device_code) == [Range(get_expected_data_types(device_code)) -> Responses]

\* the listing calls of a device in a batch run: every extension has files
\* on every day or on none, or every call fails
BatchResponses ==
    { [kind |-> "files", counts |-> [d \in FetchedDays |-> FilesPerDay]],
      [kind |-> "files", counts |-> NoFiles],
      [kind |-> "api_error", counts |-> NoFiles],
      [kind |-> "malformed", counts |-> NoFiles] }

BatchListings(device_code) ==
    { [dtype \in Range(get_expected_data_types(device_code)) |-> response] :
          response \in BatchResponses }

\* a pool with one worker per device, without the cap of 8
StartExecutorUncapped ==
    /\ pc = "updated"
    /\ max_workers' = Len(MyDevices)
    /\ pc' = IF Len(MyDevices) <= 0 THEN "crashed" ELSE "running"
    /\ UNCHANGED <<now, faults, parserVars, divert_parser, deviceVars, running, results>>

\* line 627-628: ThreadPoolExecutor(max_workers=min(8, len(MyDevices)));
\* the constructor raises ValueError for max_workers <= 0 and nothing
\* catches it
StartExecutor ==
    /\ pc = "updated"
    /\ max_workers' = Min(8, Len(MyDevices))
    /\ pc' = IF Min(8, Len(MyDevices)) <= 0 THEN "crashed" ELSE "running"
    /\ UNCHANGED <<now, faults, parserVars, divert_parser, deviceVars, running, results>>

\* executor.map hands the rows to the pool in order; a worker thread that is
\* free takes the next row
StartTask(i) ==
    /\ pc = "running"
    /\ i \in 1..Len(MyDevices)
    /\ i \notin running /\ i \notin DOMAIN results
    /\ \A j \in 1..(i - 1) : j \in running \/ j \in DOMAIN results
    /\ Cardinality(running) < max_workers
    /\ running' = running \cup {i}
    /\ UNCHANGED <<now, faults, pc, parserVars, divert_parser, deviceVars, max_workers, results>>

\* check_single_device(i), lines 615-624: the check of row i returns
FinishTask(i, listing) ==
    /\ pc = "running"
    /\ i \in running
    /\ listings' = DictSet(listings, i, listing)
    /\ results' =
          DictSet(results, i,
                  check_data_availability(MyDevices[i].deviceCode,
                                          MyDevices[i].locationCode,
                                          divert_parser, listing))
    /\ running' = running \ {i}
    /\ UNCHANGED <<now, faults, pc, parserVars, divert_parser, MyDevices, data_status, max_workers>>

\* the results stored in the reverse order of the rows
StoreResultsReversed ==
    /\ pc = "running"
    /\ DOMAIN results = 1..Len(MyDevices)
    /\ data_status' = [i \in 1..Len(MyDevices) |-> results[Len(MyDevices) + 1 - i]]
    /\ pc' = "done"
    /\ UNCHANGED <<now, faults, parserVars, divert_parser, MyDevices, listings, poolVars>>

\* lines 629-633: list(executor.map(...)) has every result; the loop stores
\* each status at its row
StoreResults ==
    /\ pc = "running"
    /\ DOMAIN results = 1..Len(MyDevices)
    /\ data_status' = [i \in 1..Len(MyDevices) |-> results[i]]
    /\ pc' = "done"
    /\ UNCHANGED <<now, faults, parserVars, divert_parser, MyDevices, listings, poolVars>>

StartNextTask == \E i \in 1..Len(MyDevices) : StartTask(i)

\* lines 750-753 and 959-962: sum(1 for i in range(len(MyDevices)) if
\* MyDevices.data_status[i]['overall_status'] == status)
StatusCount(status) ==
    Cardinality({i \in 1..Len(MyDevices) : data_status[i].overall_status = status})

\* lines 750-754 and 959-963: the counts of the summary box and of the
\* console summary, computed from the stored statuses
SummaryCounts ==
    LET critical_count == StatusCount("critical")
        warning_count == StatusCount("warning")
        minor_count == StatusCount("minor")
        diverted_count == StatusCount("diverted")
    IN [critical_count |-> critical_count,
        warning_count |-> warning_count,
        minor_count |-> minor_count,
        diverted_count |-> diverted_count,
        good_count |-> Len(MyDevices) - critical_count - warning_count
                                      - minor_count - diverted_count]

\* ------------------------------------------------------------------------
\* A run with one device
\* ------------------------------------------------------------------------
InitCheck ==
    /\ InitParserState
    /\ InitPoolState
    /\ now = MaxTime + 1
    /\ faults = {}
    /\ \E device \in DeviceCatalogue : MyDevices = <<device>>

RetrieveForCheck == \E email \in ParsedEmails : RetrieveEmail(email, MaxCheckEmails)

CheckOneDevice ==
    \E i \in running :
        \E listing \in Listings(MyDevices[i].deviceCode) : FinishTask(i, listing)

NextCheck ==
    \/ RetrieveForCheck
    \/ UpdateDivertStatus
    \/ ContinueWithoutDivertMonitoring
    \/ StartExecutor
    \/ StartNextTask
    \/ CheckOneDevice
    \/ StoreResults

SpecCheck == InitCheck /\ [][NextCheck]_vars

\* ------------------------------------------------------------------------
\* A batch run: any number of devices up to MaxDevices
\* ------------------------------------------------------------------------
DeviceLists ==
    UNION { [1..n -> DeviceCatalogue] : n \in 0..MaxDevices }

InitBatch ==
    /\ InitParserState
    /\ InitPoolState
    /\ now = MaxTime + 1
    /\ faults = {}
    /\ MyDevices \in DeviceLists

RetrieveForBatch == \E email \in ParsedEmails : RetrieveEmail(email, MaxBatchEmails)

CheckBatchDevice ==
    \E i \in running :
        \E listing \in BatchListings(MyDevices[i].deviceCode) : FinishTask(i, listing)

NextBatch ==
    \/ RetrieveForBatch
    \/ UpdateDivertStatus
    \/ ContinueWithoutDivertMonitoring
    \/ StartExecutor
    \/ StartNextTask
    \/ CheckBatchDevice
    \/ StoreResults

SpecBatch == InitBatch /\ [][NextBatch]_vars

\* ------------------------------------------------------------------------
\* The worker pool with more devices than workers
\* ------------------------------------------------------------------------
\* up to MaxPoolDevices rows of the same device
PoolDeviceLists ==
    { [i \in 1..n |-> device] : n \in 0..MaxPoolDevices, device \in DeviceCatalogue }

\* every extension has FilesPerDay files on every day
PoolListing(device_code) ==
    [dtype \in Range(get_expected_data_types(device_code)) |->
        [kind |-> "files", counts |-> [d \in FetchedDays |-> FilesPerDay]]]

InitPool ==
    /\ InitParserState
    /\ InitPoolState
    /\ now = MaxTime + 1
    /\ faults = {}
    /\ MyDevices \in PoolDeviceLists

CheckPoolDevice ==
    \E i \in running : FinishTask(i, PoolListing(MyDevices[i].deviceCode))

NextPool ==
    \/ ContinueWithoutDivertMonitoring
    \/ StartExecutor
    \/ StartNextTask
    \/ CheckPoolDevice
    \/ StoreResults

SpecPool == InitPool /\ [][NextPool]_vars

\* ------------------------------------------------------------------------
\* A run with one device, some time after the emails
\* ------------------------------------------------------------------------
\* what a listing call can return: files at the full daily count on any of
\* the last 3 days, and on the earlier days on all, on all but one or on none
HistoryCounts ==
    { [d \in FetchedDays |-> IF d \in recent \cup earlier THEN FilesPerDay ELSE 0] :
      recent \in SUBSET (0..2),
      earlier \in {3..CHECK_LAST_N_DAYS, 4..CHECK_LAST_N_DAYS, {}} }

\* every extension of the device has the same files
HistoryListings(device_code) ==
    { [dtype \in Range(get_expected_data_types(device_code)) |->
          [kind |-> "files", counts |-> c]] : c \in HistoryCounts }

InitHistory ==
    /\ InitParserState
    /\ InitPoolState
    /\ now \in Nows
    /\ faults = {}
    /\ \E device \in DeviceCatalogue : MyDevices = <<device>>

CheckWithHistory ==
    \E i \in running :
        \E listing \in HistoryListings(MyDevices[i].deviceCode) : FinishTask(i, listing)

NextHistory ==
    \/ RetrieveForCheck
    \/ UpdateDivertStatus
    \/ ContinueWithoutDivertMonitoring
    \/ StartExecutor
    \/ StartNextTask
    \/ CheckWithHistory
    \/ StoreResults

SpecHistory == InitHistory /\ [][NextHistory]_vars

\* ------------------------------------------------------------------------
\* One device whose calls of get_divert_statistics can raise
\* ------------------------------------------------------------------------
\* the call for the analysis window (line 353) and the call for the last 3
\* days (line 413); each is inside a try of its own
FaultSites == {"window_statistics", "recent_statistics"}

InitFaults ==
    /\ InitParserState
    /\ InitPoolState
    /\ now = MaxTime + 1
    /\ faults \in SUBSET FaultSites
    /\ \E device \in DeviceCatalogue : MyDevices = <<device>>

NextFaults ==
    \/ RetrieveForCheck
    \/ UpdateDivertStatus
    \/ StartExecutor
    \/ StartNextTask
    \/ CheckWithHistory
    \/ StoreResults

SpecFaults == InitFaults /\ [][NextFaults]_vars

\* ------------------------------------------------------------------------
\* One device whose daily file counts vary, without divert monitoring
\* ------------------------------------------------------------------------
\* the numbers of files a listing can hold for one day
FileCounts == {c \in 0..MaxDailyFiles : c % 2 = 0}

\* files on the last CountedDays days only, any count on each of them
VaryingCounts ==
    { [d \in FetchedDays |-> IF d < CountedDays THEN c[d] ELSE 0] :
      c \in [0..(CountedDays - 1) -> FileCounts] }

SteadyCounts == [d \in FetchedDays |-> FilesPerDay]

\* each extension of the device has the varying counts or FilesPerDay files
\* on every day
CountedListings(device_code) ==
    { [dtype \in Range(get_expected_data_types(device_code)) |->
          [kind |-> "files", counts |-> IF dtype \in varying THEN c ELSE SteadyCounts]] :
      c \in VaryingCounts,
      varying \in (SUBSET Range(get_expected_data_types(device_code))) \ {{}} }

InitCounts ==
    /\ InitParserState
    /\ InitPoolState
    /\ now = MaxTime + 1
    /\ faults = {}
    /\ \E device \in DeviceCatalogue : MyDevices = <<device>>

CheckWithCounts ==
    \E i \in running :
        \E listing \in CountedListings(MyDevices[i].deviceCode) : FinishTask(i, listing)

NextCounts ==
    \/ ContinueWithoutDivertMonitoring
    \/ StartExecutor
    \/ StartNextTask
    \/ CheckWithCounts
    \/ StoreResults

SpecCounts == InitCounts /\ [][NextCounts]_vars

\* ------------------------------------------------------------------------
\* One device with days at, below and above the coverage threshold
\* ------------------------------------------------------------------------
\* 10 files on a usual day; 3 files are exactly 30% of them, 2 files 20%
BoundaryCounts == {0, 2, 3, 10}

ThresholdCounts ==
    { [d \in FetchedDays |-> IF d < CountedDays THEN c[d] ELSE 0] :
      c \in [0..(CountedDays - 1) -> BoundaryCounts] }

\* some extensions of the device have the counts, the others have no file
ThresholdListings(device_code) ==
    { [dtype \in Range(get_expected_data_types(device_code)) |->
          [kind |-> "files", counts |-> IF dtype \in with_files THEN c ELSE NoFiles]] :
      c \in ThresholdCounts,
      with_files \in (SUBSET Range(get_expected_data_types(device_code))) \ {{}} }

CheckWithThreshold ==
    \E i \in running :
        \E listing \in ThresholdListings(MyDevices[i].deviceCode) : FinishTask(i, listing)

NextThreshold ==
    \/ ContinueWithoutDivertMonitoring
    \/ StartExecutor
    \/ StartNextTask
    \/ CheckWithThreshold
    \/ StoreResults

SpecThreshold == InitCounts /\ [][NextThreshold]_vars

\* ------------------------------------------------------------------------
\* One device with files on the day before the analysed days
\* ------------------------------------------------------------------------
\* lines 134-135: the listing is asked from (current_date - N days) 00:00 on,
\* so it holds the files of day N before today, which the loops over
\* range(CHECK_LAST_N_DAYS) do not visit.  Files today and yesterday in any
\* number, and none or FilesPerDay files on day N.
OutsideCounts ==
    { [d \in FetchedDays |->
          IF d = 0 THEN today
          ELSE IF d = 1 THEN yesterday
          ELSE IF d = CHECK_LAST_N_DAYS THEN outside
          ELSE 0] :
      today \in FileCounts, yesterday \in FileCounts, outside \in {0, FilesPerDay} }

OutsideListings(device_code) ==
    { [dtype \in Range(get_expected_data_types(device_code)) |->
          [kind |-> "files", counts |-> IF dtype \in with_files THEN c ELSE NoFiles]] :
      c \in OutsideCounts,
      with_files \in (SUBSET Range(get_expected_data_types(device_code))) \ {{}} }

CheckWithOutside ==
    \E i \in running :
        \E listing \in OutsideListings(MyDevices[i].deviceCode) : FinishTask(i, listing)

NextOutside ==
    \/ ContinueWithoutDivertMonitoring
    \/ StartExecutor
    \/ StartNextTask
    \/ CheckWithOutside
    \/ StoreResults

SpecOutside == InitCounts /\ [][NextOutside]_vars

\* ------------------------------------------------------------------------
\* Divert interval reconstruction: properties
\* ------------------------------------------------------------------------
\* the hydrophone codes that have at least one event with a timestamp among
\* the emails of the history
TimestampedCodes ==
    {code \in LocationCodes :
        \E i \in 1..Len(divert_history) :
            /\ divert_history[i].timestamp # None
            /\ code \in DOMAIN map_locations_to_hydrophones(divert_history[i].locations)}

StatusChanges(events) ==
    Cardinality({i \in 1..(Len(events) - 1) : events[i].status # events[i + 1].status})

StatusesOf(events) == [i \in 1..Len(events) |-> events[i].status]

StrictlyIncreasing(events) ==
    \A i \in 1..(Len(events) - 1) : events[i].timestamp < events[i + 1].timestamp

Period(start, end, status) ==
    [start |-> start, end |-> end, status |-> status, system |-> "SoG DDS"]

\* C2: no location has two consecutive periods of the same status; the
\* number of its periods is 1 plus the number of status changes along its
\* timestamp-sorted events; Bypass@t0, Divert@t1, Divert@t2, Bypass@t3 with
\* t0<t1<t2<t3 gives exactly Bypass[t0,t1), Divert[t1,t3), Bypass[t3,None).
C2_NoSameStatusNeighbours ==
    pc = "updated" =>
        \A location \in DOMAIN divert_periods :
            LET periods == divert_periods[location]
                events == LocationEvents(divert_history)[location]
            IN /\ \A i \in 1..(Len(periods) - 1) :
                      periods[i].status # periods[i + 1].status
               /\ Len(periods) = 1 + StatusChanges(events)
               /\ ( /\ StatusesOf(events) = <<"Bypass", "Divert", "Divert", "Bypass">>
                    /\ StrictlyIncreasing(events) )
                  => periods = << Period(events[1].timestamp, events[2].timestamp, "Bypass"),
                                  Period(events[2].timestamp, events[4].timestamp, "Divert"),
                                  Period(events[4].timestamp, None, "Bypass") >>

C2_Witness ==
    /\ pc = "updated"
    /\ "CBCH.H1" \in DOMAIN divert_periods
    /\ StatusesOf(LocationEvents(divert_history)["CBCH.H1"])
          = <<"Bypass", "Divert", "Divert", "Bypass">>
    /\ StrictlyIncreasing(LocationEvents(divert_history)["CBCH.H1"])
    /\ Len(divert_periods["CBCH.H1"]) = 3

\* C3: for every location with a timestamped event the periods are ordered
\* by start and contiguous: every period but the last has start <= end and
\* ends where the next starts, and exactly the last has end = None.
C3_PeriodsContiguous ==
    pc = "updated" =>
        \A location \in TimestampedCodes :
            /\ location \in DOMAIN divert_periods
            /\ LET periods == divert_periods[location]
               IN /\ Len(periods) >= 1
                  /\ \A i \in 1..(Len(periods) - 1) :
                        /\ periods[i].end # None
                        /\ periods[i].start <= periods[i].end
                        /\ periods[i].end = periods[i + 1].start
                        /\ periods[i].start <= periods[i + 1].start
                  /\ periods[Len(periods)].end = None

C3_Witness ==
    /\ pc = "updated"
    /\ "CBCH.H2" \in TimestampedCodes
    /\ Len(divert_periods["CBCH.H2"]) >= 3
    /\ divert_periods["CBCH.H2"][1].start < divert_periods["CBCH.H2"][2].start

\* the emails of the search in another retrieval order
Reordered(msgs, p) == [i \in 1..Len(msgs) |-> msgs[p[i]]]

\* C4: every permutation of the retrieval order of the emails gives the
\* same period lists as the update computed, and a second reconstruction
\* from the history gives them again.
C4_OrderIndependent ==
    [][UpdateDivertStatus =>
          /\ CalculateDivertPeriods(divert_history') = divert_periods'
          /\ \A p \in Permutations(1..Len(messages)) :
                CalculateDivertPeriods(ParsedAndSorted(Reordered(messages, p)))
                  = divert_periods']_vars

\* one event of an email: the email cut down to one of its locations
EventCopies(email) ==
    {[email EXCEPT !.locations = <<email.locations[j]>>] :
        j \in 1..Len(email.locations)}

\* C5: a second copy of an event (same location, timestamp and status)
\* added to the emails of the search leaves every location's period list
\* as the update computed it.
C5_DuplicateIdempotent ==
    [][UpdateDivertStatus =>
          \A i \in 1..Len(messages) :
              \A copy \in EventCopies(messages[i]) :
                  CalculateDivertPeriods(ParsedAndSorted(Append(messages, copy)))
                    = divert_periods']_vars

\* ------------------------------------------------------------------------
\* Device classification: properties
\* ------------------------------------------------------------------------
ExpectedTypes(i) == Range(get_expected_data_types(MyDevices[i].deviceCode))

\* the files of a type the listing calls of row i returned for a day
ObservedFiles(i, dtype, d) ==
    IF listings[i][dtype].kind = "files" THEN listings[i][dtype].counts[d] ELSE 0

\* a listing call of row i raised
FetchFailed(i) == \E dtype \in ExpectedTypes(i) : listings[i][dtype].kind = "api_error"

\* a listing call of row i returned a file whose date does not parse
Malformed(i) == \E dtype \in ExpectedTypes(i) : listings[i][dtype].kind = "malformed"

\* every listing call of row i succeeded and returned no file
NoObservations(i) ==
    \A dtype \in ExpectedTypes(i) :
        /\ listings[i][dtype].kind = "files"
        /\ \A d \in FetchedDays : listings[i][dtype].counts[d] = 0

\* the run has nothing about the location of row i
NoDivertInformation(i) ==
    \/ divert_parser = NoParser
    \/ /\ MyDevices[i].locationCode \notin DOMAIN current_divert_status
       /\ MyDevices[i].locationCode \notin DOMAIN divert_periods

\* the period list of the location ends with an open Divert period
OpenDivertPeriod(location) ==
    /\ divert_parser # NoParser
    /\ location \in DOMAIN divert_periods
    /\ divert_periods[location] # << >>
    /\ LET last == divert_periods[location][Len(divert_periods[location])]
       IN last.status = "Divert" /\ last.end = None

\* a type is below 30% of the expected count the status reports, on a day
BelowThreshold(i, dtype, d) ==
    100 * ObservedFiles(i, dtype, d) < 30 * data_status[i].expected_files_per_day[dtype]

\* no expected type reaches adequate coverage on the day
PoorDay(i, d) == \A dtype \in ExpectedTypes(i) : BelowThreshold(i, dtype, d)

RecentPoorDays(i) == Cardinality({d \in 0..2 : PoorDay(i, d)})

\* the types that fail the threshold on at least 2 of the last 3 days
RecentlyMissingTypes(i) ==
    {dtype \in ExpectedTypes(i) :
        Cardinality({d \in 0..2 : BelowThreshold(i, dtype, d)}) >= 2}

\* the check did not take the active divert branch
NoActiveDivert(i) == ~data_status[i].is_diverted

\* the check took the branch of the diversions that explain missing data
ExplainedByHistory(i) ==
    /\ data_status[i].divert_explanation # << >>
    /\ FracGt(data_status[i].divert_explanation[1].explained_missing, 20)

\* C1: a device whose location's period list ends with an open Divert
\* period is classified diverted, whatever files the listings returned.
C1_OpenDivertIsDiverted ==
    pc = "done" =>
        \A i \in DOMAIN data_status :
            (OpenDivertPeriod(MyDevices[i].locationCode) /\ ~Malformed(i))
                => data_status[i].overall_status = "diverted"

\* C6: a device one of whose listing calls raised has overall_status error.
C6_FetchFailureIsError ==
    pc = "done" =>
        \A i \in DOMAIN data_status :
            FetchFailed(i) => data_status[i].overall_status = "error"

\* C7: the batch run never aborts, and when it is done every device has
\* exactly one status record, at its own row, which is the result of the
\* check of that row's device.
C7_BatchCompletes ==
    /\ pc # "crashed"
    /\ pc = "done" =>
          /\ DOMAIN data_status = 1..Len(MyDevices)
          /\ \A i \in 1..Len(MyDevices) :
                data_status[i] =
                    check_data_availability(MyDevices[i].deviceCode,
                                            MyDevices[i].locationCode,
                                            divert_parser, listings[i])

\* C8: a device with no file in the window and no divert information has
\* coverage 0 for every expected type (every day of the window counted as
\* missing for it), total_missing_days = N, days_since_last_data = N and
\* overall_status critical.
C8_ZeroFilesCritical ==
    pc = "done" =>
        \A i \in DOMAIN data_status :
            (NoObservations(i) /\ NoDivertInformation(i)) =>
                /\ \A dtype \in ExpectedTypes(i) :
                      /\ data_status[i].expected_files_per_day[dtype] > 0
                      /\ data_status[i].coverage_per_type[dtype][1] = 0
                      /\ data_status[i].days_missing_per_type[dtype] = CHECK_LAST_N_DAYS
                /\ data_status[i].total_missing_days = CHECK_LAST_N_DAYS
                /\ data_status[i].days_since_last_data = CHECK_LAST_N_DAYS
                /\ data_status[i].overall_status = "critical"

C8_Witness ==
    /\ pc = "done"
    /\ divert_parser # NoParser
    /\ \E i \in DOMAIN data_status :
          /\ NoObservations(i)
          /\ NoDivertInformation(i)
          /\ Cardinality(ExpectedTypes(i)) = 2
          /\ data_status[i].total_missing_days = 7
          /\ data_status[i].days_since_last_data = 7
          /\ data_status[i].overall_status = "critical"

\* C9: with no active divert and the diversions not explaining the missing
\* data, a device none of whose last 3 days has an expected type with
\* adequate coverage is classified critical.
C9_ThreePoorDaysCritical ==
    pc = "done" =>
        \A i \in DOMAIN data_status :
            ( /\ ~Malformed(i)
              /\ NoActiveDivert(i)
              /\ ~ExplainedByHistory(i)
              /\ RecentPoorDays(i) = 3 )
                => data_status[i].overall_status = "critical"

C9_Witness ==
    /\ pc = "done"
    /\ \E i \in DOMAIN data_status :
          /\ ~Malformed(i)
          /\ MyDevices[i].locationCode \in DOMAIN divert_periods
          /\ NoActiveDivert(i)
          /\ ~ExplainedByHistory(i)
          /\ RecentPoorDays(i) = 3
          /\ \E dtype \in ExpectedTypes(i) : ObservedFiles(i, dtype, 3) > 0
          /\ data_status[i].overall_status = "critical"

\* C10: with no active divert, the diversions not explaining the missing
\* data and the device not critical, the device is classified warning
\* exactly when 2 of the last 3 days have no adequate type or at least 2
\* expected types fail the threshold on at least 2 of the last 3 days.
C10_WarningExactly ==
    pc = "done" =>
        \A i \in DOMAIN data_status :
            ( /\ ~Malformed(i)
              /\ NoActiveDivert(i)
              /\ ~ExplainedByHistory(i)
              /\ data_status[i].overall_status # "critical" )
                => ( data_status[i].overall_status = "warning"
                       <=> \/ RecentPoorDays(i) = 2
                           \/ Cardinality(RecentlyMissingTypes(i)) >= 2 )

C10_Witness ==
    /\ pc = "done"
    /\ \E i \in DOMAIN data_status :
          /\ ~Malformed(i)
          /\ NoActiveDivert(i)
          /\ ~ExplainedByHistory(i)
          /\ RecentPoorDays(i) = 1
          /\ Cardinality(RecentlyMissingTypes(i)) = 2
          /\ data_status[i].overall_status = "warning"

\* C11: with no divert information and fewer than 2 poor days among the last
\* 3, a device with exactly 1 expected type failing the threshold on at least
\* 2 of the last 3 days is classified minor; a device expecting fft and flac
\* with flac at the full daily count on all days of the window and no fft
\* file has fft in missing_data_types and is classified minor.
C11_OneTypeMissingMinor ==
    pc = "done" =>
        \A i \in DOMAIN data_status :
            (~Malformed(i) /\ NoDivertInformation(i)) =>
                /\ (RecentPoorDays(i) < 2 /\ Cardinality(RecentlyMissingTypes(i)) = 1)
                      => data_status[i].overall_status = "minor"
                /\ ( /\ ExpectedTypes(i) = {"fft", "flac"}
                     /\ \A d \in AnalysedDays :
                           /\ ObservedFiles(i, "flac", d) = FilesPerDay
                           /\ ObservedFiles(i, "fft", d) = 0 )
                      => /\ "fft" \in Range(data_status[i].missing_data_types)
                         /\ data_status[i].overall_status = "minor"

C11_Witness ==
    /\ pc = "done"
    /\ \E i \in DOMAIN data_status :
          /\ ~Malformed(i) /\ ~FetchFailed(i)
          /\ NoDivertInformation(i)
          /\ ExpectedTypes(i) = {"fft", "flac"}
          /\ \A d \in AnalysedDays :
                /\ ObservedFiles(i, "flac", d) = FilesPerDay
                /\ ObservedFiles(i, "fft", d) = 0
          /\ data_status[i].missing_data_types = <<"fft">>
          /\ data_status[i].overall_status = "minor"

\* C12: a device that is not diverted and has 1 or 2 days among the last 3
\* on which no expected type reaches adequate coverage is classified
\* warning.
C12_OneOrTwoPoorDaysWarning ==
    pc = "done" =>
        \A i \in DOMAIN data_status :
            ( /\ ~Malformed(i)
              /\ NoActiveDivert(i)
              /\ RecentPoorDays(i) \in {1, 2} )
                => data_status[i].overall_status = "warning"

\* ------------------------------------------------------------------------
\* Diversions that explain missing data: properties
\* ------------------------------------------------------------------------
\* the ticks of [from, to] that the period list of the location has diverted
DivertTicksIn(location, from, to) ==
    IF divert_parser = NoParser \/ location \notin DOMAIN divert_periods THEN 0
    ELSE LET periods == divert_periods[location]
             Overlap(k) ==
                 LET end == IF periods[k].end = None THEN now ELSE periods[k].end
                     lo == IF periods[k].start > from THEN periods[k].start ELSE from
                     hi == IF end < to THEN end ELSE to
                 IN IF periods[k].status = "Divert" /\ hi > lo THEN hi - lo ELSE 0
         IN SumOver([k \in 1..Len(periods) |-> Overlap(k)], 1..Len(periods))

WindowDivertTicks(i) ==
    DivertTicksIn(MyDevices[i].locationCode, now - CHECK_LAST_N_DAYS * TicksPerDay, now)

RecentDivertTicks(i) ==
    DivertTicksIn(MyDevices[i].locationCode, now - 3 * TicksPerDay, now)

\* divert_percentage > p, for the window of CHECK_LAST_N_DAYS days
DivertPercentageAbove(i, p) ==
    100 * WindowDivertTicks(i) > p * CHECK_LAST_N_DAYS * TicksPerDay

RECURSIVE ProductOver(_, _)
ProductOver(f, S) ==
    IF S = {} THEN 1
    ELSE LET x == CHOOSE y \in S : TRUE IN f[x] * ProductOver(f, S \ {x})

\* the files of a type over the days of the window
WindowFiles(i, dtype) ==
    SumOver([d \in AnalysedDays |-> ObservedFiles(i, dtype, d)], AnalysedDays)

\* the mean over the expected types of max(0, 100 - average coverage) is
\* above p; the average coverage of a type is 100 * files / (N * expected)
AvgCoverageDeficitAbove(i, p) ==
    LET types == ExpectedTypes(i)
        expected == data_status[i].expected_files_per_day
        full == [dtype \in types |-> CHECK_LAST_N_DAYS * expected[dtype]]
        all == ProductOver(full, types)
        deficit == [dtype \in types |->
                       IF full[dtype] > WindowFiles(i, dtype)
                       THEN 100 * (full[dtype] - WindowFiles(i, dtype)) * (all \div full[dtype])
                       ELSE 0]
    IN SumOver(deficit, types) > p * Cardinality(types) * all

WindowPoorDays(i) == Cardinality({d \in AnalysedDays : PoorDay(i, d)})

UnexplainedMissing(i) ==
    LET days == WindowPoorDays(i) - (WindowDivertTicks(i) \div TicksPerDay)
    IN IF days > 0 THEN days ELSE 0

UnexplainedRecent(i) ==
    IF 100 * RecentDivertTicks(i) > 15 * 3 * TicksPerDay
    THEN (IF RecentPoorDays(i) > 1 THEN RecentPoorDays(i) - 1 ELSE 0)
    ELSE RecentPoorDays(i)

\* C13: with no active divert, divert_percentage > 5 and both
\* divert_percentage and avg_coverage_deficit above 20, the status is warning
\* if unexplained_recent >= 2 and unexplained_missing >= 3, else minor if
\* unexplained_recent >= 1 or unexplained_missing >= 2, else good.
C13_ExplainedByHistory ==
    pc = "done" =>
        \A i \in DOMAIN data_status :
            ( /\ ~Malformed(i)
              /\ NoActiveDivert(i)
              /\ DivertPercentageAbove(i, 5)
              /\ DivertPercentageAbove(i, 20)
              /\ AvgCoverageDeficitAbove(i, 20) )
                => data_status[i].overall_status =
                      IF UnexplainedRecent(i) >= 2 /\ UnexplainedMissing(i) >= 3
                      THEN "warning"
                      ELSE IF UnexplainedRecent(i) >= 1 \/ UnexplainedMissing(i) >= 2
                      THEN "minor"
                      ELSE "good"

C13_Witness ==
    /\ pc = "done"
    /\ \E i \in DOMAIN data_status :
          /\ NoActiveDivert(i)
          /\ DivertPercentageAbove(i, 20)
          /\ AvgCoverageDeficitAbove(i, 20)
          /\ WindowDivertTicks(i) = 3
          /\ RecentDivertTicks(i) = 0
          /\ RecentPoorDays(i) = 3
          /\ WindowPoorDays(i) = 4
          /\ data_status[i].overall_status = "warning"

\* ------------------------------------------------------------------------
\* Expected files per day: properties
\* ------------------------------------------------------------------------
\* the days on which row i has at least one file of the type
DaysWithFiles(i, dtype) == {d \in FetchedDays : ObservedFiles(i, dtype, d) > 0}

\* the k-th smallest (from 1) of the daily counts of the type
KthDailyCount(i, dtype, k) ==
    CHOOSE v \in {ObservedFiles(i, dtype, d) : d \in DaysWithFiles(i, dtype)} :
        /\ Cardinality({d \in DaysWithFiles(i, dtype) : ObservedFiles(i, dtype, d) < v}) < k
        /\ k <= Cardinality({d \in DaysWithFiles(i, dtype) : ObservedFiles(i, dtype, d) <= v})

\* twice the median of the daily counts: the middle count of an odd number
\* of days, the mean of the two middle counts of an even number
TwiceMedian(i, dtype) ==
    LET n == Cardinality(DaysWithFiles(i, dtype))
    IN IF n % 2 = 1
       THEN 2 * KthDailyCount(i, dtype, (n + 1) \div 2)
       ELSE KthDailyCount(i, dtype, n \div 2) + KthDailyCount(i, dtype, n \div 2 + 1)

\* the daily counts of the type are those of the bag, in any order of days
HasDailyCounts(i, dtype, bag) ==
    /\ Cardinality(DaysWithFiles(i, dtype)) = Len(bag)
    /\ \A c \in Range(bag) :
          Cardinality({d \in DaysWithFiles(i, dtype) : ObservedFiles(i, dtype, d) = c})
              = Cardinality({k \in 1..Len(bag) : bag[k] = c})

\* C14: for every expected type with at least one day of files,
\* expected_count = max(median(daily_counts), 4).
C14_ExpectedIsMedian ==
    pc = "done" =>
        \A i \in DOMAIN data_status : \A dtype \in ExpectedTypes(i) :
            DaysWithFiles(i, dtype) # {}
                => 2 * data_status[i].expected_files_per_day[dtype]
                       = Max(TwiceMedian(i, dtype), 2 * 4)

\* the example of C14: daily counts [2, 4, 4, 6] give an expected count of 4
C14_ExampleHolds ==
    pc = "done" =>
        \A i \in DOMAIN data_status : \A dtype \in ExpectedTypes(i) :
            HasDailyCounts(i, dtype, <<2, 4, 4, 6>>)
                => data_status[i].expected_files_per_day[dtype] = 4

C14_ExampleReached ==
    /\ pc = "done"
    /\ \E i \in DOMAIN data_status : \E dtype \in ExpectedTypes(i) :
          HasDailyCounts(i, dtype, <<2, 4, 4, 6>>)

\* C15: every daily coverage_pct and every per-type average coverage is >= 0
\* and the expected count they are divided by is positive; the coverage is
\* not capped at 100.
C15_CoverageNonNegative ==
    pc = "done" =>
        \A i \in DOMAIN data_status :
            data_status[i].overall_status # "error" =>
                \A dtype \in ExpectedTypes(i) :
                    LET expected_count == data_status[i].expected_files_per_day[dtype]
                        avg_coverage == data_status[i].coverage_per_type[dtype]
                    IN /\ expected_count > 0
                       /\ avg_coverage[2] > 0
                       /\ avg_coverage[1] >= 0
                       /\ avg_coverage[2] = CHECK_LAST_N_DAYS * expected_count
                       /\ \A d \in AnalysedDays : 100 * ObservedFiles(i, dtype, d) >= 0

\* a day whose coverage is above 100%
C15_Witness ==
    /\ pc = "done"
    /\ \E i \in DOMAIN data_status :
          /\ data_status[i].overall_status # "error"
          /\ \E dtype \in ExpectedTypes(i) : \E d \in AnalysedDays :
                ObservedFiles(i, dtype, d) > data_status[i].expected_files_per_day[dtype]

\* ------------------------------------------------------------------------
\* Summary: properties
\* ------------------------------------------------------------------------
DevicesWithStatus(status) ==
    {i \in DOMAIN data_status : data_status[i].overall_status = status}

\* C16: each device is counted once, under its own overall_status; the
\* reported good count is the number of devices whose overall_status is good.
C16_CountsByOwnStatus ==
    pc = "done" =>
        /\ SummaryCounts.critical_count = Cardinality(DevicesWithStatus("critical"))
        /\ SummaryCounts.warning_count = Cardinality(DevicesWithStatus("warning"))
        /\ SummaryCounts.minor_count = Cardinality(DevicesWithStatus("minor"))
        /\ SummaryCounts.diverted_count = Cardinality(DevicesWithStatus("diverted"))
        /\ SummaryCounts.good_count = Cardinality(DevicesWithStatus("good"))

\* the counts other than good are those of the devices of that status
C16_OtherCountsExact ==
    pc = "done" =>
        /\ SummaryCounts.critical_count = Cardinality(DevicesWithStatus("critical"))
        /\ SummaryCounts.warning_count = Cardinality(DevicesWithStatus("warning"))
        /\ SummaryCounts.minor_count = Cardinality(DevicesWithStatus("minor"))
        /\ SummaryCounts.diverted_count = Cardinality(DevicesWithStatus("diverted"))
        /\ SummaryCounts.good_count
              = Cardinality(DevicesWithStatus("good")) + Cardinality(DevicesWithStatus("error"))

\* ------------------------------------------------------------------------
\* The status record: properties
\* ------------------------------------------------------------------------
StatusValues == {"good", "minor", "warning", "critical", "diverted", "error"}

\* C17: every status record has its overall_status among the six values, and
\* overall_status = diverted exactly when is_diverted is true and the
\* analysis did not end in error.
C17_DivertedIffFlag ==
    /\ \A i \in DOMAIN results :
          /\ results[i].overall_status \in StatusValues
          /\ results[i].overall_status = "diverted"
                <=> (results[i].is_diverted /\ results[i].overall_status # "error")
    /\ \A i \in DOMAIN data_status :
          /\ data_status[i].overall_status \in StatusValues
          /\ data_status[i].overall_status = "diverted"
                <=> (data_status[i].is_diverted /\ data_status[i].overall_status # "error")

\* a diverted location whose analysis ended in error
C17_Witness ==
    /\ pc = "done"
    /\ \E i \in DOMAIN data_status :
          /\ data_status[i].is_diverted
          /\ data_status[i].overall_status = "error"

\* a diverted location with every file present is still reported diverted
C17_DivertedWithFullData ==
    /\ pc = "done"
    /\ \E i \in DOMAIN data_status :
          /\ data_status[i].overall_status = "diverted"
          /\ data_status[i].total_missing_days = 0

\* ------------------------------------------------------------------------
\* Events without a timestamp: properties
\* ------------------------------------------------------------------------
\* the retrieved emails without those whose timestamp did not parse
WithTimestamp(msgs) == SelectSeq(msgs, LAMBDA m : m.timestamp # None)

\* C18: an event without a parseable timestamp is dropped; the periods and
\* the current divert status of every location are those computed from the
\* remaining events alone.
C18_UntimedEventDropped ==
    [][UpdateDivertStatus =>
          /\ divert_periods' = CalculateDivertPeriods(ParsedAndSorted(WithTimestamp(messages)))
          /\ current_divert_status'
                = CurrentDivertStatus(ParsedAndSorted(WithTimestamp(messages)))]_vars

\* the part of C18 about the periods: they are those of the remaining events
C18_PeriodsIgnoreUntimed ==
    [][UpdateDivertStatus =>
          divert_periods' = CalculateDivertPeriods(ParsedAndSorted(WithTimestamp(messages)))]_vars

\* an event without timestamp does not change the current status of a
\* location that has an event with a timestamp
C18_StatusOfTimedLocations ==
    [][UpdateDivertStatus =>
          LET timed == CurrentDivertStatus(ParsedAndSorted(WithTimestamp(messages)))
          IN \A code \in DOMAIN timed : current_divert_status'[code] = timed[code]]_vars

\* a location whose current status comes from an event without timestamp
C18_UntimedStatusReached ==
    /\ pc = "updated"
    /\ \E code \in DOMAIN current_divert_status :
          /\ current_divert_status[code].timestamp = None
          /\ code \notin DOMAIN divert_periods

\* ------------------------------------------------------------------------
\* The fan-out: properties
\* ------------------------------------------------------------------------
\* the status a run of row i alone gives, with the divert state as it is
SequentialStatus(i) ==
    check_data_availability(MyDevices[i].deviceCode, MyDevices[i].locationCode,
                            divert_parser, listings[i])

\* while the pool runs, a step leaves the divert state and the rows alone
\* and changes the result of no row that has one
TaskWritesOwnResult ==
    pc = "running" =>
        /\ UNCHANGED <<current_divert_status, divert_history, divert_periods>>
        /\ UNCHANGED <<divert_parser, MyDevices>>
        /\ \A j \in DOMAIN results : j \in DOMAIN results' /\ results'[j] = results[j]
        /\ (DOMAIN results') \ (DOMAIN results) \subseteq running

\* C19: no device analysis changes the shared divert state and each task
\* writes its own result only; for every interleaving of the workers the
\* status stored for a device is the one a run of that device alone gives.
C19_AsSequential ==
    /\ [][TaskWritesOwnResult]_vars
    /\ [](pc = "done" =>
            /\ DOMAIN data_status = 1..Len(MyDevices)
            /\ \A i \in DOMAIN data_status : data_status[i] = SequentialStatus(i))

\* two devices analysed with different outcomes
C19_Witness ==
    /\ pc = "done"
    /\ Len(MyDevices) = 2
    /\ data_status[1].overall_status # data_status[2].overall_status
    /\ \E code \in DOMAIN current_divert_status : current_divert_status[code].status = "Divert"

\* both analyses of a batch of two run at the same time
C19_BothRunning == Cardinality(running) = 2

\* C20: at every moment the number of device analyses that run concurrently
\* is at most 8 and at most the number of devices.
C20_BoundedConcurrency ==
    /\ Cardinality(running) <= 8
    /\ Cardinality(running) <= Len(MyDevices)

\* more than 8 devices: 8 analyses run and a device waits for a worker
C20_Witness ==
    /\ Len(MyDevices) > 8
    /\ Cardinality(running) = 8
    /\ \E i \in 1..Len(MyDevices) : i \notin running /\ i \notin DOMAIN results

\* ------------------------------------------------------------------------
\* Current status against the period list: properties
\* ------------------------------------------------------------------------
LastPeriod(location) == divert_periods[location][Len(divert_periods[location])]

CurrentMatchesPeriods ==
    /\ DOMAIN current_divert_status = DOMAIN divert_periods
    /\ \A location \in DOMAIN divert_periods :
          /\ divert_periods[location] # << >>
          /\ LastPeriod(location).end = None
          /\ current_divert_status[location].status = LastPeriod(location).status

\* C21: after update_divert_status the current status of every location is
\* the status of the last (open) period of its list, and a location has a
\* current status iff it has at least one period.
C21_CurrentIsLastPeriod == pc # "retrieving" => CurrentMatchesPeriods

\* every email of the history has a timestamp and no two have the same one
DistinctTimestamps ==
    /\ \A k \in 1..Len(divert_history) : divert_history[k].timestamp # None
    /\ \A k, l \in 1..Len(divert_history) :
          k # l => divert_history[k].timestamp # divert_history[l].timestamp

\* C21 for histories without missing and without equal timestamps
C21_HoldsForDistinctTimestamps ==
    (pc # "retrieving" /\ DistinctTimestamps) => CurrentMatchesPeriods

\* C21 fails without any missing timestamp: two events of one instant
C21_TieReached ==
    /\ pc # "retrieving"
    /\ \A k \in 1..Len(divert_history) : divert_history[k].timestamp # None
    /\ ~CurrentMatchesPeriods

\* ------------------------------------------------------------------------
\* Update cycles: properties
\* ------------------------------------------------------------------------
\* the hydrophone codes and the timestamps of the emails of a search
CodesOf(msgs) ==
    UNION { DOMAIN map_locations_to_hydrophones(msgs[k].locations) : k \in 1..Len(msgs) }

TimestampsOf(msgs) == { msgs[k].timestamp : k \in 1..Len(msgs) }

\* C22: after every update cycle current_divert_status, divert_history and
\* divert_periods are what the events of that cycle alone give; no status,
\* history entry or period of an earlier cycle persists.
C22_LatestCycleOnly ==
    [][UpdateDivertStatus =>
          /\ current_divert_status' = CurrentDivertStatus(ParsedAndSorted(messages))
          /\ divert_periods' = CalculateDivertPeriods(ParsedAndSorted(messages))
          /\ divert_history' = ParsedAndSorted(messages)
          /\ DOMAIN current_divert_status' \subseteq CodesOf(messages)
          /\ DOMAIN divert_periods' \subseteq CodesOf(messages)
          /\ \A k \in 1..Len(divert_history') :
                \E l \in 1..Len(messages) : divert_history'[k] = messages[l]
          /\ \A location \in DOMAIN divert_periods' :
                \A k \in 1..Len(divert_periods'[location]) :
                    divert_periods'[location][k].start \in TimestampsOf(messages)]_vars

\* a later cycle whose search found no email for the locations that have a
\* status and periods from the cycle before
C22_Witness ==
    /\ pc = "retrieving"
    /\ messages # << >>
    /\ CodesOf(messages) = {}
    /\ DOMAIN current_divert_status # {}
    /\ DOMAIN divert_periods # {}

\* ------------------------------------------------------------------------
\* The coverage threshold: properties
\* ------------------------------------------------------------------------
\* coverage_pct of the type on the day is at least 30
ReachesThreshold(i, dtype, d) ==
    100 * ObservedFiles(i, dtype, d) >= 30 * data_status[i].expected_files_per_day[dtype]

ExactlyAtThreshold(i, dtype, d) ==
    /\ ObservedFiles(i, dtype, d) > 0
    /\ 100 * ObservedFiles(i, dtype, d) = 30 * data_status[i].expected_files_per_day[dtype]

\* C23: a day of the window counts towards total_missing_days exactly when
\* no expected type has coverage_pct >= 30 on it; one adequate type suffices
\* and a type at exactly 30% is adequate.
C23_PoorDayIffNoTypeAtThreshold ==
    pc = "done" =>
        \A i \in DOMAIN data_status :
            data_status[i].overall_status # "error" =>
                data_status[i].total_missing_days =
                    Cardinality({d \in AnalysedDays :
                                   ~\E dtype \in ExpectedTypes(i) : ReachesThreshold(i, dtype, d)})

\* two expected types; on some day one is at exactly 30%, the other has no
\* file, and the days counted are among the other days
C23_Witness ==
    /\ pc = "done"
    /\ \E i \in DOMAIN data_status :
          /\ Cardinality(ExpectedTypes(i)) = 2
          /\ \E d \in AnalysedDays :
                /\ \E dtype \in ExpectedTypes(i) : ExactlyAtThreshold(i, dtype, d)
                /\ \E dtype \in ExpectedTypes(i) : ObservedFiles(i, dtype, d) = 0
                /\ data_status[i].total_missing_days =
                      Cardinality({e \in AnalysedDays \ {d} :
                                     \A dtype \in ExpectedTypes(i) :
                                         ~ReachesThreshold(i, dtype, e)})

\* ------------------------------------------------------------------------
\* Days without data: properties
\* ------------------------------------------------------------------------
\* C24: for every value of MAX_DAYS_WITHOUT_DATA, a device whose
\* days_since_last_data is greater than it is never classified good.
C24_AlertBeyondMaxDays ==
    pc = "done" =>
        \A i \in DOMAIN data_status : \A max_days \in MaxDaysWithoutDataSettings :
            data_status[i].days_since_last_data > max_days
                => data_status[i].overall_status # "good"

\* C24 for the default value of the setting alone
C24_HoldsForDefault ==
    pc = "done" =>
        \A i \in DOMAIN data_status :
            data_status[i].days_since_last_data > MAX_DAYS_WITHOUT_DATA
                => data_status[i].overall_status # "good"

\* a device without data for more than the default and not diverted
C24_DefaultReached ==
    /\ pc = "done"
    /\ \E i \in DOMAIN data_status :
          /\ data_status[i].days_since_last_data > MAX_DAYS_WITHOUT_DATA
          /\ ~data_status[i].is_diverted
          /\ data_status[i].overall_status = "minor"

\* the days (before today) on which row i has a file of an expected type
DaysWithAnyFile(i) ==
    {d \in FetchedDays : \E dtype \in ExpectedTypes(i) : ObservedFiles(i, dtype, d) > 0}

\* C25: days_since_last_data is the number of days between today and the
\* most recent day with a file of an expected type, CHECK_LAST_N_DAYS when
\* there is no such file, and always between 0 and CHECK_LAST_N_DAYS.
C25_DaysSinceLastData ==
    pc = "done" =>
        \A i \in DOMAIN data_status :
            /\ data_status[i].days_since_last_data \in 0..CHECK_LAST_N_DAYS
            /\ data_status[i].overall_status # "error" =>
                  IF DaysWithAnyFile(i) = {}
                  THEN data_status[i].days_since_last_data = CHECK_LAST_N_DAYS
                  ELSE /\ data_status[i].days_since_last_data \in DaysWithAnyFile(i)
                       /\ \A d \in DaysWithAnyFile(i) :
                             data_status[i].days_since_last_data <= d
                       /\ data_status[i].last_data_date = data_status[i].days_since_last_data

\* the most recent file is 2 days old and there are older files
C25_Witness ==
    /\ pc = "done"
    /\ \E i \in DOMAIN data_status :
          /\ data_status[i].days_since_last_data = 2
          /\ \E d \in DaysWithAnyFile(i) : d > 2

\* ------------------------------------------------------------------------
\* Resolved issues: properties
\* ------------------------------------------------------------------------
\* C26: with no active divert and outside the explained-by-history rule, a
\* device whose last 3 days each have an adequate type and that has no type
\* failing the threshold on 2 or more of them is good, however many earlier
\* days of the window had poor coverage.
C26_ResolvedIsGood ==
    pc = "done" =>
        \A i \in DOMAIN data_status :
            ( /\ ~Malformed(i)
              /\ NoActiveDivert(i)
              /\ ~ExplainedByHistory(i)
              /\ RecentPoorDays(i) = 0
              /\ RecentlyMissingTypes(i) = {} )
                => data_status[i].overall_status = "good"

\* every earlier day of the window is poor, the last 3 days are adequate
C26_Witness ==
    /\ pc = "done"
    /\ \E i \in DOMAIN data_status :
          /\ NoActiveDivert(i)
          /\ ~ExplainedByHistory(i)
          /\ RecentPoorDays(i) = 0
          /\ RecentlyMissingTypes(i) = {}
          /\ data_status[i].total_missing_days = CHECK_LAST_N_DAYS - 3
          /\ data_status[i].missing_data_types # << >>
          /\ data_status[i].overall_status = "good"

\* ------------------------------------------------------------------------
\* Divert statistics: properties
\* ------------------------------------------------------------------------
\* the windows [start_date, end_date] a caller can ask for
Windows == {w \in (0..(MaxTime + 2)) \X (0..(MaxTime + 2)) : w[1] < w[2]}

\* the location is in a period of the status during the tick that starts at t
InPeriodAt(location, status, t) ==
    /\ location \in DOMAIN divert_periods
    /\ \E k \in 1..Len(divert_periods[location]) :
          LET period == divert_periods[location][k]
          IN /\ period.status = status
             /\ period.start <= t
             /\ t < (IF period.end # None THEN period.end ELSE now)

\* the ticks of the window during which the location is in the status
TicksIn(location, status, w) ==
    Cardinality({t \in w[1]..(w[2] - 1) : InPeriodAt(location, status, t)})

StatisticsOfWindow(location, w) ==
    LET stats == get_divert_statistics(location, w[1], w[2])
    IN /\ stats.total_divert_time = TicksIn(location, "Divert", w)
       /\ stats.total_bypass_time = TicksIn(location, "Bypass", w)
       /\ stats.divert_percentage[2] = w[2] - w[1]
       /\ stats.divert_percentage[1] = 100 * TicksIn(location, "Divert", w)
       /\ stats.bypass_percentage[2] = w[2] - w[1]
       /\ stats.bypass_percentage[1] = 100 * TicksIn(location, "Bypass", w)
       /\ stats.divert_percentage[1] >= 0
       /\ stats.divert_percentage[1] <= 100 * stats.divert_percentage[2]
       /\ stats.bypass_percentage[1] >= 0
       /\ stats.bypass_percentage[1] <= 100 * stats.bypass_percentage[2]
       /\ stats.total_divert_time + stats.total_bypass_time <= w[2] - w[1]

\* C27: for every period list and window, divert_percentage is the fraction
\* of the window covered by the Divert periods clipped to it, both
\* percentages are within 0..100 and total_divert_time + total_bypass_time
\* is at most the window length.
C27_StatisticsClipped ==
    pc = "updated" =>
        \A location \in LocationCodes : \A w \in Windows : StatisticsOfWindow(location, w)

\* a window that starts inside a closed Divert period and ends inside the
\* period that follows it
C27_Witness ==
    /\ pc = "updated"
    /\ \E location \in DOMAIN divert_periods : \E w \in Windows :
          \E k \in 1..Len(divert_periods[location]) :
              LET period == divert_periods[location][k]
              IN /\ period.status = "Divert"
                 /\ period.end # None
                 /\ period.start < w[1] /\ w[1] < period.end /\ period.end < w[2]
                 /\ get_divert_statistics(location, w[1], w[2]).total_divert_time
                       = period.end - w[1]

\* ------------------------------------------------------------------------
\* Divert statistics that raise: properties
\* ------------------------------------------------------------------------
\* the status of the active divert and raw coverage rules
RawStatus(i) ==
    IF data_status[i].is_diverted THEN "diverted"
    ELSE IF RecentPoorDays(i) >= 3 THEN "critical"
    ELSE IF RecentPoorDays(i) >= 2 THEN "warning"
    ELSE IF Cardinality(RecentlyMissingTypes(i)) >= 2 THEN "warning"
    ELSE IF Cardinality(RecentlyMissingTypes(i)) >= 1 THEN "minor"
    ELSE "good"

\* the status of the explained-by-history rule without the softening of the
\* recent days
UnsoftenedStatus(i) ==
    IF RecentPoorDays(i) >= 2 /\ UnexplainedMissing(i) >= 3 THEN "warning"
    ELSE IF RecentPoorDays(i) >= 1 \/ UnexplainedMissing(i) >= 2 THEN "minor"
    ELSE "good"

\* the check of row i reached the call for the analysis window and it raised
WindowStatisticsRaised(i) ==
    /\ divert_parser # NoParser
    /\ ~Malformed(i)
    /\ "window_statistics" \in faults

\* the check of row i reached the call for the last 3 days and it raised
RecentStatisticsRaised(i) ==
    /\ divert_parser # NoParser
    /\ ~Malformed(i)
    /\ "window_statistics" \notin faults
    /\ "recent_statistics" \in faults
    /\ NoActiveDivert(i)
    /\ ExplainedByHistory(i)

\* C28: when computing the divert statistics of the location raises, the
\* device is classified by the active divert and raw coverage rules, without
\* a divert_explanation, and its status is not error.
C28_FailureMeansNoExplanation ==
    pc = "done" =>
        \A i \in DOMAIN data_status :
            (WindowStatisticsRaised(i) \/ RecentStatisticsRaised(i)) =>
                /\ data_status[i].overall_status # "error"
                /\ data_status[i].divert_explanation = << >>
                /\ data_status[i].overall_status = RawStatus(i)

\* C28, amended: when the call for the analysis window raises, the device is
\* classified by the active divert and raw coverage rules without a
\* divert_explanation; when only the call for the last 3 days raises, the
\* divert_explanation stays and the explained-by-history rule decides with
\* the recent poor days not reduced; the status is not error in either case.
C28_FailureCaughtPerCall ==
    pc = "done" =>
        \A i \in DOMAIN data_status :
            /\ WindowStatisticsRaised(i) =>
                  /\ data_status[i].overall_status # "error"
                  /\ data_status[i].divert_explanation = << >>
                  /\ data_status[i].overall_status = RawStatus(i)
            /\ RecentStatisticsRaised(i) =>
                  /\ data_status[i].overall_status # "error"
                  /\ data_status[i].divert_explanation # << >>
                  /\ data_status[i].overall_status = UnsoftenedStatus(i)

\* the call for the window raised for a location with enough diversion to
\* explain missing data, and the device is critical
C28_Witness ==
    /\ pc = "done"
    /\ \E i \in DOMAIN data_status :
          /\ WindowStatisticsRaised(i)
          /\ NoActiveDivert(i)
          /\ DivertPercentageAbove(i, 20)
          /\ AvgCoverageDeficitAbove(i, 20)
          /\ data_status[i].overall_status = "critical"

\* only the call for the last 3 days raised, where the reduction of the
\* recent days would have made the device minor
C28_RecentCallRaised ==
    /\ pc = "done"
    /\ \E i \in DOMAIN data_status :
          /\ RecentStatisticsRaised(i)
          /\ 100 * RecentDivertTicks(i) > 15 * 3 * TicksPerDay
          /\ RecentPoorDays(i) = 2
          /\ data_status[i].overall_status = "warning"

\* ------------------------------------------------------------------------
\* The current status of a location: properties
\* ------------------------------------------------------------------------
\* the emails of the search that mention the hydrophone code
Mentioning(msgs, code) ==
    {k \in 1..Len(msgs) : code \in DOMAIN map_locations_to_hydrophones(msgs[k].locations)}

\* the entry an email gives the code
EntryOf(email, code) ==
    [status |-> map_locations_to_hydrophones(email.locations)[code],
     timestamp |-> email.timestamp,
     system |-> email.system]

\* the current status of every mentioned location is the entry of an email
\* of greatest timestamp among those that mention it
NewestEmailWins(msgs, current) ==
    /\ DOMAIN current = CodesOf(msgs)
    /\ \A code \in CodesOf(msgs) :
          \E k \in Mentioning(msgs, code) :
              /\ \A l \in Mentioning(msgs, code) : msgs[l].timestamp <= msgs[k].timestamp
              /\ current[code] = EntryOf(msgs[k], code)

\* C29: after update_divert_status every mentioned location has the status,
\* timestamp and system of the email of greatest timestamp that mentions it,
\* whatever the order in which the emails were retrieved.
C29_NewestEmailAnyOrder ==
    [][UpdateDivertStatus =>
          /\ NewestEmailWins(messages, current_divert_status')
          /\ \A p \in Permutations(1..Len(messages)) :
                CurrentDivertStatus(ParsedAndSorted(Reordered(messages, p)))
                  = current_divert_status']_vars

\* the part of C29 that does not depend on the order: some email of greatest
\* timestamp gives the current status
C29_SomeNewestEmailWins ==
    [][UpdateDivertStatus => NewestEmailWins(messages, current_divert_status')]_vars

\* C29 for searches in which no two emails have the same timestamp
C29_HoldsWithoutTies ==
    [][(/\ UpdateDivertStatus
        /\ \A k, l \in 1..Len(messages) :
              k # l => messages[k].timestamp # messages[l].timestamp)
         => \A p \in Permutations(1..Len(messages)) :
                CurrentDivertStatus(ParsedAndSorted(Reordered(messages, p)))
                  = current_divert_status']_vars

\* ------------------------------------------------------------------------
\* Files outside the analysed days: properties
\* ------------------------------------------------------------------------
\* the listing of row i without its files dated outside the analysed days
OnlyAnalysedDays(i) ==
    [dtype \in DOMAIN listings[i] |->
        [listings[i][dtype] EXCEPT
            !.counts = [d \in FetchedDays |->
                           IF d \in AnalysedDays THEN listings[i][dtype].counts[d] ELSE 0]]]

\* the result of the run whose observations differ only outside those days
StatusOfAnalysedDays(i) ==
    check_data_availability(MyDevices[i].deviceCode, MyDevices[i].locationCode,
                            divert_parser, OnlyAnalysedDays(i))

\* C30: two runs whose observations differ only in files dated outside the
\* N analysed days give the same expected_files_per_day, coverage_per_type,
\* total_missing_days and overall_status.
C30_OnlyAnalysedDaysMatter ==
    pc = "done" =>
        \A i \in DOMAIN data_status :
            LET other == StatusOfAnalysedDays(i)
            IN /\ data_status[i].expected_files_per_day = other.expected_files_per_day
               /\ data_status[i].coverage_per_type = other.coverage_per_type
               /\ data_status[i].total_missing_days = other.total_missing_days
               /\ data_status[i].overall_status = other.overall_status

\* files of day N change the status from warning to critical
C30_StatusChanged ==
    /\ pc = "done"
    /\ \E i \in DOMAIN data_status :
          /\ data_status[i].overall_status = "critical"
          /\ StatusOfAnalysedDays(i).overall_status = "warning"

====
